---- MODULE Spec2Model ----
(***************************************************************************)
(* Model of the Conan build-orchestration tasks of tasks/conan.py:         *)
(* setup_remotes, login, package_username, package and copy_dependencies.  *)
(*                                                                         *)
(* Strings that the code takes apart (URLs tested with startswith, branch  *)
(* names matched against a regular expression) are sequences of chunks or  *)
(* characters, so that a prefix test is computed and not assumed.          *)
(***************************************************************************)
EXTENDS Integers, Sequences, FiniteSets, TLC

VARIABLES
    task,          \* the task being run
    pc,            \* position of the task
    remoteList,    \* conan_api.remote_list(): ordered [name, url] records
    renameStrict,  \* whether the library's remote_rename refuses an existing target name
    firstRun,      \* remote list as it was after the first setup_remotes ("none" before)
    runs,          \* completed runs of setup_remotes
    localdb,       \* LocalDB: the URLs that hold a cached token
    cached0,       \* LocalDB as it was when login was called
    argUser,       \* login's username argument ("None" when not given)
    username,      \* login's local variable username
    token,         \* login's local variable token
    todo,          \* login: remotes of the snapshot still to visit
    events,        \* the externally visible calls of the running task, in order
    branch,        \* CIManager.get_branch(): [none, name], name a sequence of characters
    localUser,     \* getpass.getuser()
    result,        \* return value of package_username ("unset" before the call)
    deps,          \* dependencies(conan_api): the nodes of the dependency graph, in order
    remoteRefs,    \* conan_api.remote_list_ref(): references bound to a remote
    snapRefs,      \* upload_dependencies_internal's local variable remote_refs
    builds,        \* builder.items still to install
    depIdx,        \* upload_dependencies_internal: index of the dependency in progress
    tempDirs,      \* temporary directories that exist on disk
    created,       \* temporary directories the task has created so far
    savedPos       \* position conan-redirect had when conan_redirect_removed was entered

vars == <<task, pc, remoteList, renameStrict, firstRun, runs, localdb, cached0, argUser,
          username, token, todo, events, branch, localUser, result, deps,
          remoteRefs, snapRefs, builds, depIdx, tempDirs, created, savedPos>>

(***************************************************************************)
(* Bounds of the model.                                                    *)
(***************************************************************************)
MaxRemotes == 2      \* configured remotes before setup_remotes (SpecRemotes)
MaxLoginRemotes == 2 \* configured remotes before the pre-task of login
MaxRuns == 2         \* runs of setup_remotes in a row
MaxSuffix == 2       \* characters after the tested part of a branch name
MaxDeps == 2         \* nodes of the dependency graph
MaxBuilds == 2       \* items of the build matrix
MaxTaskRemotes == 1  \* configured remotes before the pre-tasks of copy_dependencies

(***************************************************************************)
(* Module constants of tasks/conan.py.                                     *)
(***************************************************************************)
DL_ARTIFACTORY == <<"http://artifactory.dlogics.com:8081/artifactory">>
UPLOAD_DEPENDENCIES_REMOTE == "conan-ext"
REDIRECT_REMOTE == "conan-redirect"
STABLE_USERNAME == "datalogics"
\* 'dl/stable/.*': the literal part, character by character; the trailing .*
\* is handled by Match.
STABLE_BRANCH_PATTERN == <<"d", "l", "/", "s", "t", "a", "b", "l", "e", "/">>

Remote(n, u) == [name |-> n, url |-> u]

\* The OrderedDict remotes, in its order.
remotes ==
    << Remote("conan-redirect", DL_ARTIFACTORY \o <<"/api/conan/conan-redirect">>),
       Remote("conan-ext", DL_ARTIFACTORY \o <<"/api/conan/conan-ext">>),
       Remote("conan-local", DL_ARTIFACTORY \o <<"/api/conan/conan-local">>),
       Remote("conan-center", <<"https://conan.bintray.com">>),
       Remote("bincrafters", <<"https://api.bintray.com/conan/bincrafters/public-conan">>) >>

CanonicalUrl(n) == remotes[CHOOSE i \in 1..Len(remotes) : remotes[i].name = n].url

(***************************************************************************)
(* Sequence helpers.                                                       *)
(***************************************************************************)
Names(l) == {l[i].name : i \in 1..Len(l)}

Urls(l) == {l[i].url : i \in 1..Len(l)}

\* str.startswith, on chunk sequences.
StartsWith(s, p) == Len(s) >= Len(p) /\ SubSeq(s, 1, Len(p)) = p

\* list.insert(index, x) with a 0-based index: an index past the end appends.
InsertAt(l, index, x) ==
    LET k == IF index > Len(l) THEN Len(l) ELSE index
    IN SubSeq(l, 1, k) \o <<x>> \o SubSeq(l, k + 1, Len(l))

\* 0-based position of the remote called n (Len(l) when there is none).
PosOf(l, n) ==
    IF n \in Names(l) THEN (CHOOSE i \in 1..Len(l) : l[i].name = n) - 1 ELSE Len(l)

(***************************************************************************)
(* The remote registry operations the tasks call on conan_api.  Each       *)
(* returns [ok, list]: ok is FALSE when the call raises ConanException.    *)
(***************************************************************************)
Raised(l) == [ok |-> FALSE, list |-> l]

Done(l) == [ok |-> TRUE, list |-> l]

\* conan_api.remote_rename(old, new): the remote keeps its place.  A target
\* name that already belongs to another remote is refused by a strict
\* registry; a lax one rebuilds the ordered mapping, where the later entry's
\* URL lands on the first of the two places.
remote_rename(l, old, new, strict) ==
    IF old \notin Names(l) THEN Raised(l)
    ELSE IF new \in Names(l) /\ strict THEN Raised(l)
    ELSE IF new \in Names(l)
    THEN LET po == PosOf(l, old) + 1
             pn == PosOf(l, new) + 1
             first == IF po < pn THEN po ELSE pn
             last == IF po < pn THEN pn ELSE po
             merged == Remote(new, l[last].url)
         IN Done([i \in 1..(Len(l) - 1) |->
                    IF i = first THEN merged
                    ELSE IF i < last THEN l[i] ELSE l[i + 1]])
    ELSE Done([i \in 1..Len(l) |->
                 IF l[i].name = old THEN Remote(new, l[i].url) ELSE l[i]])

\* conan_api.remote_add(name, url, insert=insert, force=True): drops the
\* remote of that name and every remote of that URL, then inserts.
remote_add_force(l, name, url, insert) ==
    LET Keep(r) == r.name # name /\ r.url # url
    IN Done(InsertAt(SelectSeq(l, Keep), insert, Remote(name, url)))

\* conan_api.remote_add(name, url): refuses a name or a URL already there,
\* else appends.
remote_add(l, name, url) ==
    IF name \in Names(l) \/ url \in Urls(l) THEN Raised(l)
    ELSE Done(Append(l, Remote(name, url)))

\* conan_api.remote_remove(name).
remote_remove(l, name) ==
    LET Keep(r) == r.name # name
    IN IF name \notin Names(l) THEN Raised(l) ELSE Done(SelectSeq(l, Keep))

(***************************************************************************)
(* get_remotes: URL -> name, the last remote of a URL winning.             *)
(***************************************************************************)
get_remotes(l) ==
    [u \in Urls(l) |->
        l[CHOOSE i \in 1..Len(l) :
            l[i].url = u /\ \A j \in (i + 1)..Len(l) : l[j].url # u].name]

(***************************************************************************)
(* setup_remotes: the loop over remotes.items(), from entry i on, with the *)
(* map urls computed once before the loop and insert_loc = i - 1.          *)
(***************************************************************************)
RECURSIVE SetupLoop(_, _, _, _)
SetupLoop(l, urls, i, strict) ==
    IF i > Len(remotes) THEN Done(l)
    ELSE LET remote == remotes[i].name
             url == remotes[i].url
             renamed == IF url \in DOMAIN urls /\ urls[url] # remote
                        THEN remote_rename(l, urls[url], remote, strict)
                        ELSE Done(l)
         IN IF ~renamed.ok THEN renamed
            ELSE SetupLoop(remote_add_force(renamed.list, remote, url, i - 1).list,
                           urls, i + 1, strict)

setup_remotes(l, strict) == SetupLoop(l, get_remotes(l), 1, strict)

(***************************************************************************)
(* The remotes a user may have configured before a task runs: distinct     *)
(* names and distinct URLs (the registry admits neither twice), canonical  *)
(* or not, in any order.                                                   *)
(***************************************************************************)
NameUniverse == Names(remotes) \cup {"alt"}

UrlUniverse ==
    Urls(remotes) \cup {DL_ARTIFACTORY \o <<"/api/conan/alt">>, <<"https://example.com/conan">>}

InitialLists(names, urls, n) ==
    UNION {{l \in [1..k -> [name : names, url : urls]] :
              \A i, j \in 1..k : i # j => l[i].name # l[j].name /\ l[i].url # l[j].url}
           : k \in 0..n}

(***************************************************************************)
(* Values of the variables a task does not use.                            *)
(***************************************************************************)
NoLogin ==
    /\ localdb = {}
    /\ cached0 = {}
    /\ argUser = "None"
    /\ username = "None"
    /\ token = "None"
    /\ todo = <<>>

NoBranch == [none |-> TRUE, name |-> <<>>]

NoUser ==
    /\ branch = NoBranch
    /\ localUser = "None"
    /\ result = "unset"

NoBuild ==
    /\ deps = <<>>
    /\ remoteRefs = {}
    /\ snapRefs = {}
    /\ builds = 0
    /\ depIdx = 0
    /\ tempDirs = {}
    /\ created = {}
    /\ savedPos = 0

NoRuns ==
    /\ firstRun = <<>>
    /\ runs = 0

loginVars == <<localdb, cached0, argUser, username, token, todo>>

userVars == <<branch, localUser, result>>

buildVars == <<deps, remoteRefs, snapRefs, builds, depIdx, tempDirs, created, savedPos>>

runVars == <<firstRun, runs>>

(***************************************************************************)
(* Task setup_remotes, run up to MaxRuns times in a row.                   *)
(***************************************************************************)
InitRemotes ==
    /\ task = "setup_remotes"
    /\ pc = "ready"
    /\ remoteList \in InitialLists(NameUniverse, UrlUniverse, MaxRemotes)
    /\ renameStrict \in BOOLEAN
    /\ events = <<>>
    /\ NoRuns /\ NoLogin /\ NoUser /\ NoBuild

\* One whole run that returns.
SetupRemotes ==
    /\ task = "setup_remotes" /\ pc = "ready" /\ runs < MaxRuns
    /\ LET r == setup_remotes(remoteList, renameStrict)
       IN /\ r.ok
          /\ remoteList' = r.list
          /\ firstRun' = IF runs = 0 THEN r.list ELSE firstRun
    /\ runs' = runs + 1
    /\ UNCHANGED <<task, pc, renameStrict, events, loginVars, userVars, buildVars>>

\* One run that a ConanException of remote_rename ends: the changes made
\* before the call stay.
SetupRemotesRaises ==
    /\ task = "setup_remotes" /\ pc = "ready" /\ runs < MaxRuns
    /\ LET r == setup_remotes(remoteList, renameStrict)
       IN /\ ~r.ok
          /\ remoteList' = r.list
    /\ pc' = "error"
    /\ UNCHANGED <<task, renameStrict, events, runVars, loginVars, userVars, buildVars>>

NextRemotes == SetupRemotes \/ SetupRemotesRaises

SpecRemotes == InitRemotes /\ [][NextRemotes]_vars

\* Positions 1..Len(remotes) of l are the canonical remotes, in their order.
CanonicalPrefix(l) ==
    /\ Len(l) >= Len(remotes)
    /\ \A i \in 1..Len(remotes) : l[i] = remotes[i]

\* No URL is configured under two names.
UrlsUnique(l) == \A i, j \in 1..Len(l) : l[i].url = l[j].url => i = j

\* C1: running setup_remotes a second time leaves the remote list as the
\* first run left it (same names, same URLs, same order).
C1_Idempotent ==
    (task = "setup_remotes" /\ runs = 2) => remoteList = firstRun

\* C2: after setup_remotes has returned, the five canonical remotes occupy
\* the first five positions in priority order, each with its canonical URL,
\* and no URL remains under a second name.
C2_CanonicalFirst ==
    (task = "setup_remotes" /\ runs >= 1) =>
        CanonicalPrefix(remoteList) /\ UrlsUnique(remoteList)

(***************************************************************************)
(* Task login, with its pre-task setup_remotes.                            *)
(***************************************************************************)
\* What the user can type at the username prompt, tokens the server can
\* answer with, and the statuses of its answer.
TypedNames == {"", "alice"}

Tokens == {"", "enc1"}

HttpStatuses == {200, 401, 503}

ArtifactoryUrls == {u \in UrlUniverse : StartsWith(u, DL_ARTIFACTORY)}

\* The remotes configured before login: two canonical names and a foreign
\* one, over two canonical URLs, a further Artifactory one and an outside one.
LoginNames == {"conan-ext", "conan-local", "alt"}

LoginUrls ==
    {CanonicalUrl("conan-ext"), CanonicalUrl("conan-local"),
     DL_ARTIFACTORY \o <<"/api/conan/alt">>, <<"https://example.com/conan">>}

Event(op, r, cached, user, tok, status) ==
    [op |-> op, remote |-> r.name, url |-> r.url, cached |-> cached,
     user |-> user, token |-> tok, status |-> status]

\* remote.url.startswith(DL_ARTIFACTORY)
UnderArtifactory(r) == StartsWith(r.url, DL_ARTIFACTORY)

\* localdb.get_login(remote.url) gives a token that is not None.
LoggedInNever(db, r) == FALSE

LoggedIn(db, r) == r.url \in db

\* token is None
NeedsExchangeAlways(tok) == TRUE

NeedsExchange(tok) == tok = "None"

\* r.raise_for_status(): a 4xx or 5xx answer raises HTTPError.
RaisesNever(status) == FALSE

raise_for_status(status) == status >= 400 /\ status < 600

InitLogin ==
    /\ task = "login"
    /\ pc = "pre"
    /\ remoteList \in InitialLists(LoginNames, LoginUrls, MaxLoginRemotes)
    /\ renameStrict \in BOOLEAN
    /\ localdb \in SUBSET ArtifactoryUrls
    /\ cached0 = localdb
    /\ argUser \in {"None", "ci"}
    /\ localUser = "dev"
    /\ username = "None"
    /\ token = "None"
    /\ todo = <<>>
    /\ events = <<>>
    /\ branch = NoBranch /\ result = "unset"
    /\ NoRuns /\ NoBuild

\* pre=[setup_remotes], returning.
LoginPreSetup ==
    /\ task = "login" /\ pc = "pre"
    /\ LET r == setup_remotes(remoteList, renameStrict)
       IN /\ r.ok
          /\ remoteList' = r.list
    /\ pc' = "start"
    /\ UNCHANGED <<task, renameStrict, events, runVars, loginVars, userVars, buildVars>>

\* pre=[setup_remotes], raising: login is not run.
LoginPreSetupRaises ==
    /\ task = "login" /\ pc = "pre"
    /\ LET r == setup_remotes(remoteList, renameStrict)
       IN /\ ~r.ok
          /\ remoteList' = r.list
    /\ pc' = "pre_error"
    /\ UNCHANGED <<task, renameStrict, events, runVars, loginVars, userVars, buildVars>>

\* token = None; the loop takes conan_api.remote_list() once.
LoginStart ==
    /\ task = "login" /\ pc = "start"
    /\ token' = "None"
    /\ username' = argUser
    /\ todo' = remoteList
    /\ pc' = "loop"
    /\ UNCHANGED <<task, remoteList, renameStrict, events, runVars, localdb, cached0,
                   argUser, userVars, buildVars>>

\* if not remote.url.startswith(DL_ARTIFACTORY): continue
LoginSkipForeign ==
    /\ task = "login" /\ pc = "loop" /\ todo # <<>>
    /\ ~UnderArtifactory(Head(todo))
    /\ todo' = Tail(todo)
    /\ UNCHANGED <<task, pc, remoteList, renameStrict, events, runVars, localdb, cached0,
                   argUser, username, token, userVars, buildVars>>

\* if old_token is not None: continue
LoginSkipCached ==
    /\ task = "login" /\ pc = "loop" /\ todo # <<>>
    /\ UnderArtifactory(Head(todo))
    /\ LoggedIn(localdb, Head(todo))
    /\ todo' = Tail(todo)
    /\ UNCHANGED <<task, pc, remoteList, renameStrict, events, runVars, localdb, cached0,
                   argUser, username, token, userVars, buildVars>>

\* if token is None: the message, the prompts and the request.  The branch
\* is left with the token set, or by the HTTPError of raise_for_status.
LoginExchange ==
    /\ task = "login" /\ pc = "loop" /\ todo # <<>>
    /\ UnderArtifactory(Head(todo))
    /\ ~LoggedIn(localdb, Head(todo))
    /\ NeedsExchange(token)
    /\ \E typed \in TypedNames, status \in HttpStatuses, text \in Tokens :
         LET r == Head(todo)
             was == r.url \in localdb
             user == IF username # "None" THEN username
                     ELSE IF typed = "" THEN localUser ELSE typed
             asked == <<Event("prompt", r, was, user, "None", 0),
                        Event("http", r, was, user, text, status)>>
         IN /\ username' = user
            /\ events' = events \o asked
            /\ IF raise_for_status(status)
               THEN pc' = "error" /\ token' = token
               ELSE pc' = pc /\ token' = text
    /\ UNCHANGED <<task, remoteList, renameStrict, runVars, localdb, cached0, argUser,
                   todo, userVars, buildVars>>

\* conan_api.authenticate(username, token, remote.name): stores the login
\* of the remote's URL, or raises.
LoginAuthenticate ==
    /\ task = "login" /\ pc = "loop" /\ todo # <<>>
    /\ UnderArtifactory(Head(todo))
    /\ ~LoggedIn(localdb, Head(todo))
    /\ ~NeedsExchange(token)
    /\ LET r == Head(todo)
       IN events' = Append(events,
                           Event("authenticate", r, r.url \in localdb, username, token, 0))
    /\ \/ /\ localdb' = localdb \cup {Head(todo).url}
          /\ todo' = Tail(todo)
          /\ pc' = pc
       \/ /\ pc' = "error"
          /\ UNCHANGED <<localdb, todo>>
    /\ UNCHANGED <<task, remoteList, renameStrict, runVars, cached0, argUser, username,
                   token, userVars, buildVars>>

LoginReturn ==
    /\ task = "login" /\ pc = "loop" /\ todo = <<>>
    /\ pc' = "done"
    /\ UNCHANGED <<task, remoteList, renameStrict, events, runVars, loginVars, userVars,
                   buildVars>>

NextLogin ==
    \/ LoginPreSetup
    \/ LoginPreSetupRaises
    \/ LoginStart
    \/ LoginSkipForeign
    \/ LoginSkipCached
    \/ LoginExchange
    \/ LoginAuthenticate
    \/ LoginReturn

SpecLogin == InitLogin /\ [][NextLogin]_vars

Ops(op) == {i \in 1..Len(events) : events[i].op = op}

InLogin == task = "login" /\ pc \in {"loop", "done", "error"}

\* C3: login authenticates no remote that has a cached token and no remote
\* outside the Artifactory host; when every Artifactory remote has a cached
\* token it neither prompts, nor sends the request, nor authenticates.
C3_SkipsCached ==
    InLogin =>
        /\ \A i \in Ops("authenticate") :
              StartsWith(events[i].url, DL_ARTIFACTORY) /\ ~events[i].cached
        /\ (\A k \in 1..Len(remoteList) :
               StartsWith(remoteList[k].url, DL_ARTIFACTORY) => remoteList[k].url \in cached0)
           => events = <<>>

\* A run that skipped a cached Artifactory remote and authenticated another.
C3_Witness ==
    /\ task = "login" /\ pc = "done"
    /\ \E k \in 1..Len(remoteList) :
          StartsWith(remoteList[k].url, DL_ARTIFACTORY) /\ remoteList[k].url \in cached0
    /\ Ops("authenticate") # {}

\* C4: one run of login prompts at most once and sends the request at most
\* once; every authenticate call comes after the request and passes the
\* username and the token of that one exchange.
C4_ExchangeOnce ==
    InLogin =>
        /\ Cardinality(Ops("prompt")) <= 1
        /\ Cardinality(Ops("http")) <= 1
        /\ \A a \in Ops("authenticate") :
              \E h \in Ops("http") :
                  /\ h < a
                  /\ events[a].token = events[h].token
                  /\ events[a].user = events[h].user
        /\ \A a, b \in Ops("authenticate") :
              events[a].token = events[b].token /\ events[a].user = events[b].user

\* A run that authenticated three remotes.
C4_Witness ==
    /\ task = "login" /\ pc = "done"
    /\ Cardinality(Ops("authenticate")) >= 3

\* C8: a 4xx or 5xx answer to the request ends login with an error: no
\* token is kept, no login is stored, no remote is authenticated and the
\* request is not sent again.
C8_FailedExchangeAborts ==
    (task = "login" /\ \E h \in Ops("http") : events[h].status >= 400) =>
        /\ pc = "error"
        /\ token = "None"
        /\ localdb = cached0
        /\ Ops("authenticate") = {}
        /\ Cardinality(Ops("http")) = 1

\* The request failed while several remotes were still to be logged in to.
C8_Witness ==
    /\ task = "login" /\ pc = "error"
    /\ \E h \in Ops("http") : events[h].status = 401
    /\ Cardinality({k \in 1..Len(todo) :
                      StartsWith(todo[k].url, DL_ARTIFACTORY) /\ todo[k].url \notin localdb}) >= 2

(***************************************************************************)
(* package_username.                                                       *)
(***************************************************************************)
\* Characters a branch name may hold besides those of the pattern.
OtherChars == {"1", "/", "\n"}

SeqsUpTo(S, n) == UNION {[1..k -> S] : k \in 0..n}

\* Branch names: a cut of the pattern's literal part, possibly after a
\* foreign first character, followed by up to MaxSuffix other characters.
BranchNames ==
    {lead \o SubSeq(STABLE_BRANCH_PATTERN, 1, k) \o tail :
        lead \in {<<>>, <<"x">>},
        k \in 0..Len(STABLE_BRANCH_PATTERN),
        tail \in SeqsUpTo(OtherChars, MaxSuffix)}

Branches == {NoBranch} \cup {[none |-> FALSE, name |-> b] : b \in BranchNames}

\* The literal characters p looked for at any place of s, as re.search does.
MatchAnywhere(p, s) ==
    \E k \in 0..Len(s) :
        /\ Len(s) - k >= Len(p)
        /\ SubSeq(s, k + 1, k + Len(p)) = p

\* prog.match(branch) for 'dl/stable/.*': the literal characters p at the
\* start of s; the closing .* takes any run of characters but a line
\* break, the empty run included, and match does not ask for the end.
RECURSIVE Match(_, _)
Match(p, s) ==
    IF p = <<>> THEN TRUE
    ELSE /\ s # <<>>
         /\ Head(s) = Head(p)
         /\ Match(Tail(p), Tail(s))

\* bool(branch): neither None nor the empty string.
Truthy(b) == ~b.none /\ b.name # <<>>

package_username(b, user) ==
    IF Truthy(b) /\ Match(STABLE_BRANCH_PATTERN, b.name)
    THEN STABLE_USERNAME
    ELSE user

InitUser ==
    /\ task = "package_username"
    /\ pc = "ready"
    /\ branch \in Branches
    /\ localUser \in {"dev", STABLE_USERNAME}
    /\ result = "unset"
    /\ remoteList = <<>>
    /\ renameStrict = TRUE
    /\ events = <<>>
    /\ NoRuns /\ NoLogin /\ NoBuild

PackageUsername ==
    /\ task = "package_username" /\ pc = "ready"
    /\ result' = package_username(branch, localUser)
    /\ pc' = "done"
    /\ UNCHANGED <<task, remoteList, renameStrict, events, branch, localUser, runVars,
                   loginVars, buildVars>>

NextUser == PackageUsername

SpecUser == InitUser /\ [][NextUser]_vars

\* The branch name begins with the characters dl/stable/.
OnStableBranch(b) ==
    /\ ~b.none
    /\ Len(b.name) >= Len(STABLE_BRANCH_PATTERN)
    /\ \A i \in 1..Len(STABLE_BRANCH_PATTERN) : b.name[i] = STABLE_BRANCH_PATTERN[i]

TaskNames == {REDIRECT_REMOTE, "alt"}

TaskUrls == {CanonicalUrl("conan-ext"), DL_ARTIFACTORY \o <<"/api/conan/alt">>}

\* The remote lists setup_remotes (a pre-task of login, itself the pre-task
\* of copy_dependencies) can leave behind.
TaskLists ==
    {setup_remotes(l, TRUE).list : l \in InitialLists(TaskNames, TaskUrls, MaxTaskRemotes)}

\* The conanfiles of the dependency graph: user and channel of the
\* reference, and whether the recipe has an attribute alias.
DepKinds ==
    [user : {STABLE_USERNAME, "dev", "bincrafters"},
     channel : {"stable", "testing"},
     alias : BOOLEAN]

DepLists == SeqsUpTo(DepKinds, MaxDeps)

Refs == 1..MaxDeps

Call(op, ref, remote) == [op |-> op, ref |-> ref, remote |-> remote]

HomeDir == <<"home", 0>>

StageDir(n) == <<"stage", n>>

\* Leaving a "with tempfile.TemporaryDirectory()" block, by its end or by
\* an exception passing through it: the directory is removed.
LeaveScopeLeaky(dirs, d, raised) == IF raised THEN dirs ELSE dirs \ {d}

LeaveScope(dirs, d, raised) == dirs \ {d}

\* stable_non_local_dependencies: the dependencies it yields.
SelectedAnyChannel(d, user) == ~(d.user = "datalogics" \/ d.user = user)

Selected(d, user) ==
    /\ ~(d.user = "datalogics" \/ d.user = user)
    /\ ~(d.channel # "stable")

\* The order of the statements of copy_dependencies: what follows each.
copy_dependencies_swapped(step) ==
    CASE step = "enter_home" -> "upload_dependencies_internal"
      [] step = "upload_dependencies_internal" -> "install_all_configurations"
      [] step = "install_all_configurations" -> "leave_home"

copy_dependencies_next(step) ==
    CASE step = "enter_home" -> "install_all_configurations"
      [] step = "install_all_configurations" -> "upload_dependencies_internal"
      [] step = "upload_dependencies_internal" -> "leave_home"

InitTasks ==
    /\ task \in {"copy_dependencies", "package"}
    /\ pc = "ready"
    /\ remoteList \in TaskLists
    /\ renameStrict = TRUE
    /\ remoteRefs \in SUBSET Refs
    /\ localUser = "dev"
    /\ events = <<>>
    /\ deps = <<>>
    /\ snapRefs = {}
    /\ builds = 0
    /\ depIdx = 0
    /\ tempDirs = {}
    /\ created = {}
    /\ savedPos = 0
    /\ branch = NoBranch /\ result = "unset"
    /\ NoRuns /\ NoLogin

\* An exception leaves copy_dependencies from inside the temporary home:
\* the home is removed on the way out.
Abort(dirs, where) ==
    /\ tempDirs' = LeaveScope(dirs, HomeDir, TRUE)
    /\ events' = Append(events, Call("raise", 0, where))
    /\ pc' = "failed"

\* temporary_user_home_api up to its yield: the temporary directory, the
\* copy of the user home, remove_remote_refs.
EnterHome ==
    /\ task = "copy_dependencies" /\ pc = "ready"
    /\ created' = created \cup {HomeDir}
    /\ \/ /\ tempDirs' = tempDirs \cup {HomeDir}
          /\ events' = events \o <<Call("copytree", 0, "-"), Call("remove_remote_refs", 0, "-")>>
          /\ remoteRefs' = {}
          /\ pc' = copy_dependencies_next("enter_home")
       \/ /\ Abort(tempDirs \cup {HomeDir}, "copytree")
          /\ UNCHANGED remoteRefs
    /\ UNCHANGED <<task, remoteList, renameStrict, runVars, loginVars, userVars, deps,
                   snapRefs, builds, depIdx, savedPos>>

\* install_all_configurations up to the loop: the build matrix, and
\* conan_redirect_removed up to its yield.
InstallAllEnter ==
    /\ task = "copy_dependencies" /\ pc = "install_all_configurations"
    /\ builds' \in 0..MaxBuilds
    /\ savedPos' = PosOf(remoteList, REDIRECT_REMOTE)
    /\ IF REDIRECT_REMOTE \in Names(remoteList)
       THEN /\ remoteList' = remote_remove(remoteList, REDIRECT_REMOTE).list
            /\ events' = Append(events, Call("remote_remove", 0, REDIRECT_REMOTE))
       ELSE UNCHANGED <<remoteList, events>>
    /\ pc' = "installing"
    /\ UNCHANGED <<task, renameStrict, runVars, loginVars, userVars, deps, remoteRefs,
                   snapRefs, depIdx, tempDirs, created>>

\* with tempfile.TemporaryDirectory() as tmpdir, for the next build.
StageEnter ==
    /\ task = "copy_dependencies" /\ pc = "installing" /\ builds > 0
    /\ tempDirs' = tempDirs \cup {StageDir(builds)}
    /\ created' = created \cup {StageDir(builds)}
    /\ pc' = "staged"
    /\ UNCHANGED <<task, remoteList, renameStrict, events, runVars, loginVars, userVars,
                   deps, remoteRefs, snapRefs, builds, depIdx, savedPos>>

\* conan_api.install returns: the references it fetched are bound to
\* their remote (the cache of the temporary home starts empty: an install
\* fetches the graph, or finds it fetched); the staging directory is left.
StageInstall ==
    /\ task = "copy_dependencies" /\ pc = "staged"
    /\ \E fetched \in {{}, Refs} : remoteRefs' = remoteRefs \cup fetched
    /\ events' = Append(events, Call("install", 0, "-"))
    /\ tempDirs' = LeaveScope(tempDirs, StageDir(builds), FALSE)
    /\ builds' = builds - 1
    /\ pc' = "installing"
    /\ UNCHANGED <<task, remoteList, renameStrict, runVars, loginVars, userVars, deps,
                   snapRefs, depIdx, created, savedPos>>

\* conan_api.install raises: the exception leaves the staging directory,
\* passes the yield of conan_redirect_removed, which has no finally, and
\* leaves the temporary home.
StageInstallRaises ==
    /\ task = "copy_dependencies" /\ pc = "staged"
    /\ Abort(LeaveScope(tempDirs, StageDir(builds), TRUE), "install")
    /\ UNCHANGED <<task, remoteList, renameStrict, runVars, loginVars, userVars, deps,
                   remoteRefs, snapRefs, builds, depIdx, created, savedPos>>

\* The loop is over: conan_redirect_removed resumes after its yield.
InstallAllLeave ==
    /\ task = "copy_dependencies" /\ pc = "installing" /\ builds = 0
    /\ LET r == remote_add(remoteList, REDIRECT_REMOTE, CanonicalUrl(REDIRECT_REMOTE))
       IN IF r.ok
          THEN /\ remoteList' = r.list
               /\ events' = Append(events, Call("remote_add", 0, REDIRECT_REMOTE))
               /\ pc' = copy_dependencies_next("install_all_configurations")
               /\ UNCHANGED tempDirs
          ELSE /\ Abort(tempDirs, "remote_add")
               /\ UNCHANGED remoteList
    /\ UNCHANGED <<task, renameStrict, runVars, loginVars, userVars, deps, remoteRefs,
                   snapRefs, builds, depIdx, created, savedPos>>

\* upload_dependencies_internal up to its loop: remote_refs is read once,
\* and conan_api.info resolves the dependency graph.
UploadEnter ==
    /\ task = "copy_dependencies" /\ pc = "upload_dependencies_internal"
    /\ snapRefs' = remoteRefs
    /\ \/ /\ deps' \in DepLists
          /\ depIdx' = 1
          /\ pc' = "deps"
          /\ UNCHANGED <<events, tempDirs>>
       \/ /\ Abort(tempDirs, "info")
          /\ UNCHANGED <<deps, depIdx>>
    /\ UNCHANGED <<task, remoteList, renameStrict, runVars, loginVars, userVars,
                   remoteRefs, builds, created, savedPos>>

\* The dependency in progress is promoted: stable_non_local_dependencies
\* yields it and it has no attribute alias.
Promoting ==
    /\ depIdx \in 1..Len(deps)
    /\ Selected(deps[depIdx], localUser)
    /\ ~deps[depIdx].alias

\* The dependency is passed over, by stable_non_local_dependencies or as an alias.
DepSkip ==
    /\ task = "copy_dependencies" /\ pc = "deps"
    /\ depIdx \in 1..Len(deps)
    /\ ~Promoting
    /\ depIdx' = depIdx + 1
    /\ UNCHANGED <<task, pc, remoteList, renameStrict, events, runVars, loginVars,
                   userVars, deps, remoteRefs, snapRefs, builds, tempDirs, created, savedPos>>

\* conan_api.copy(ref, "datalogics/<channel>", force=True, packages=True)
DepCopy ==
    /\ task = "copy_dependencies" /\ pc = "deps"
    /\ Promoting
    /\ events' = Append(events, Call("copy", depIdx, STABLE_USERNAME))
    /\ pc' = "upload"
    /\ UNCHANGED <<task, remoteList, renameStrict, runVars, loginVars, userVars, deps,
                   remoteRefs, snapRefs, builds, depIdx, tempDirs, created, savedPos>>

\* conan_api.upload(str(dl_ref), remote=UPLOAD_DEPENDENCIES_REMOTE, ...):
\* raises when the remote is not configured.
DepUpload ==
    /\ task = "copy_dependencies" /\ pc = "upload"
    /\ IF UPLOAD_DEPENDENCIES_REMOTE \in Names(remoteList)
       THEN /\ events' = Append(events, Call("upload", depIdx, UPLOAD_DEPENDENCIES_REMOTE))
            /\ pc' = "update_ref"
            /\ UNCHANGED tempDirs
       ELSE Abort(tempDirs, "upload")
    /\ UNCHANGED <<task, remoteList, renameStrict, runVars, loginVars, userVars, deps,
                   remoteRefs, snapRefs, builds, depIdx, created, savedPos>>

\* if ref in remote_refs: conan_api.remote_update_ref(ref, remote=REDIRECT_REMOTE),
\* which raises for a reference or a remote the registry does not know.
DepUpdateRef ==
    /\ task = "copy_dependencies" /\ pc = "update_ref"
    /\ IF depIdx \notin snapRefs
       THEN pc' = "remove" /\ UNCHANGED <<events, tempDirs>>
       ELSE IF depIdx \in remoteRefs /\ REDIRECT_REMOTE \in Names(remoteList)
            THEN /\ events' = Append(events, Call("remote_update_ref", depIdx, REDIRECT_REMOTE))
                 /\ pc' = "remove"
                 /\ UNCHANGED tempDirs
            ELSE Abort(tempDirs, "remote_update_ref")
    /\ UNCHANGED <<task, remoteList, renameStrict, runVars, loginVars, userVars, deps,
                   remoteRefs, snapRefs, builds, depIdx, created, savedPos>>

\* conan_api.remove(ref, force=True): the local cache copy goes, and with
\* it the binding of the reference.
DepRemove ==
    /\ task = "copy_dependencies" /\ pc = "remove"
    /\ events' = Append(events, Call("remove", depIdx, "-"))
    /\ remoteRefs' = remoteRefs \ {depIdx}
    /\ pc' = "export_alias"
    /\ UNCHANGED <<task, remoteList, renameStrict, runVars, loginVars, userVars, deps,
                   snapRefs, builds, depIdx, tempDirs, created, savedPos>>

\* conan_api.export_alias(ref, str(dl_ref))
DepExportAlias ==
    /\ task = "copy_dependencies" /\ pc = "export_alias"
    /\ events' = Append(events, Call("export_alias", depIdx, STABLE_USERNAME))
    /\ pc' = "upload_alias"
    /\ UNCHANGED <<task, remoteList, renameStrict, runVars, loginVars, userVars, deps,
                   remoteRefs, snapRefs, builds, depIdx, tempDirs, created, savedPos>>

\* conan_api.upload(ref, remote=REDIRECT_REMOTE, confirm=True); the loop
\* goes on to the next dependency.
DepUploadAlias ==
    /\ task = "copy_dependencies" /\ pc = "upload_alias"
    /\ IF REDIRECT_REMOTE \in Names(remoteList)
       THEN /\ events' = Append(events, Call("upload", depIdx, REDIRECT_REMOTE))
            /\ remoteRefs' = remoteRefs \cup {depIdx}
            /\ depIdx' = depIdx + 1
            /\ pc' = "deps"
            /\ UNCHANGED tempDirs
       ELSE /\ Abort(tempDirs, "upload")
            /\ UNCHANGED <<remoteRefs, depIdx>>
    /\ UNCHANGED <<task, remoteList, renameStrict, runVars, loginVars, userVars, deps,
                   snapRefs, builds, created, savedPos>>

\* The call the loop is about to make raises (the server refuses, the
\* package is not in the cache, ...).
DepCallRaises ==
    /\ task = "copy_dependencies"
    /\ \/ pc = "deps" /\ Promoting
       \/ pc \in {"upload", "remove", "export_alias", "upload_alias"}
    /\ Abort(tempDirs, pc)
    /\ UNCHANGED <<task, remoteList, renameStrict, runVars, loginVars, userVars, deps,
                   remoteRefs, snapRefs, builds, depIdx, created, savedPos>>

\* The loop of upload_dependencies_internal is over.
UploadReturn ==
    /\ task = "copy_dependencies" /\ pc = "deps"
    /\ depIdx > Len(deps)
    /\ pc' = copy_dependencies_next("upload_dependencies_internal")
    /\ UNCHANGED <<task, remoteList, renameStrict, events, runVars, loginVars, userVars,
                   buildVars>>

\* The body of "with temporary_user_home_api()" is over: the generator
\* resumes and the temporary home is removed.
LeaveHome ==
    /\ task = "copy_dependencies" /\ pc = "leave_home"
    /\ tempDirs' = LeaveScope(tempDirs, HomeDir, FALSE)
    /\ pc' = "done"
    /\ UNCHANGED <<task, remoteList, renameStrict, events, runVars, loginVars, userVars,
                   deps, remoteRefs, snapRefs, builds, depIdx, created, savedPos>>

\* package up to its loop: the build matrix; tools_deps_env_info installs
\* build_tools and reads conanbuildinfo.json, or raises.
PackageEnter ==
    /\ task = "package" /\ pc = "ready"
    /\ builds' \in 0..MaxBuilds
    /\ \/ /\ events' = Append(events, Call("install", 0, "build_tools"))
          /\ pc' = "installing"
       \/ /\ events' = Append(events, Call("raise", 0, "tools_deps_env_info"))
          /\ pc' = "failed"
    /\ UNCHANGED <<task, remoteList, renameStrict, runVars, loginVars, userVars, deps,
                   remoteRefs, snapRefs, depIdx, tempDirs, created, savedPos>>

\* with tempfile.TemporaryDirectory() as tmpdir, for the next build.
PackageStageEnter ==
    /\ task = "package" /\ pc = "installing" /\ builds > 0
    /\ tempDirs' = tempDirs \cup {StageDir(builds)}
    /\ created' = created \cup {StageDir(builds)}
    /\ pc' = "staged"
    /\ UNCHANGED <<task, remoteList, renameStrict, events, runVars, loginVars, userVars,
                   deps, remoteRefs, snapRefs, builds, depIdx, savedPos>>

\* conan_api.install_reference returns, or raises: either way the staging
\* directory is left.
PackageStageInstall ==
    /\ task = "package" /\ pc = "staged"
    /\ \/ /\ events' = Append(events, Call("install_reference", 0, "-"))
          /\ tempDirs' = LeaveScope(tempDirs, StageDir(builds), FALSE)
          /\ builds' = builds - 1
          /\ pc' = "installing"
       \/ /\ events' = Append(events, Call("raise", 0, "install_reference"))
          /\ tempDirs' = LeaveScope(tempDirs, StageDir(builds), TRUE)
          /\ pc' = "failed"
          /\ UNCHANGED builds
    /\ UNCHANGED <<task, remoteList, renameStrict, runVars, loginVars, userVars, deps,
                   remoteRefs, snapRefs, depIdx, created, savedPos>>

\* builder.run(base_profile_name=base_profile_name)
PackageRun ==
    /\ task = "package" /\ pc = "installing" /\ builds = 0
    /\ \/ /\ events' = Append(events, Call("run", 0, "-"))
          /\ pc' = "done"
       \/ /\ events' = Append(events, Call("raise", 0, "run"))
          /\ pc' = "failed"
    /\ UNCHANGED <<task, remoteList, renameStrict, runVars, loginVars, userVars, buildVars>>

NextTasks ==
    \/ EnterHome
    \/ InstallAllEnter
    \/ StageEnter
    \/ StageInstall
    \/ StageInstallRaises
    \/ InstallAllLeave
    \/ UploadEnter
    \/ DepSkip
    \/ DepCopy
    \/ DepUpload
    \/ DepUpdateRef
    \/ DepRemove
    \/ DepExportAlias
    \/ DepUploadAlias
    \/ DepCallRaises
    \/ UploadReturn
    \/ LeaveHome
    \/ PackageEnter
    \/ PackageStageEnter
    \/ PackageStageInstall
    \/ PackageRun

SpecTasks == InitTasks /\ [][NextTasks]_vars

InCopy == task = "copy_dependencies"

\* The calls made for reference n, in order, as <<op, remote>> pairs.
RECURSIVE CallsOf(_, _)
CallsOf(es, n) ==
    IF es = <<>> THEN <<>>
    ELSE IF Head(es).ref = n
         THEN <<<<Head(es).op, Head(es).remote>>>> \o CallsOf(Tail(es), n)
         ELSE CallsOf(Tail(es), n)

\* The promotion of one dependency: copy under the stable identity, upload
\* of the copy to conan-ext, removal of the original, alias, upload of the
\* alias to conan-redirect.
PromotionCalls ==
    << <<"copy", "datalogics">>, <<"upload", "conan-ext">>, <<"remove", "-">>,
       <<"export_alias", "datalogics">>, <<"upload", "conan-redirect">> >>

\* The same with the binding of the reference moved to conan-redirect,
\* done when the reference was bound to a remote at the start.
PromotionCallsRebound ==
    << <<"copy", "datalogics">>, <<"upload", "conan-ext">>,
       <<"remote_update_ref", "conan-redirect">>, <<"remove", "-">>,
       <<"export_alias", "datalogics">>, <<"upload", "conan-redirect">> >>

StableForeign(d) ==
    d.channel = "stable" /\ d.user # "datalogics" /\ d.user # localUser

\* C6 as stated: when the run has completed, every stable dependency of a
\* foreign user has been copied, uploaded, removed and aliased, in this
\* order, and no other dependency has been touched.
C6_AsStated ==
    (InCopy /\ pc = "done") =>
        \A n \in 1..Len(deps) :
            IF StableForeign(deps[n])
            THEN CallsOf(events, n) \in {PromotionCalls, PromotionCallsRebound}
            ELSE CallsOf(events, n) = <<>>

\* C6 amended: the same, for the stable dependencies of a foreign user
\* whose recipe is not itself an alias; an alias, like a dependency of the
\* stable identity, of the local user or of another channel, is never
\* touched, at any point of the run.
C6_Promotion ==
    InCopy =>
        \A n \in 1..Len(deps) :
            IF StableForeign(deps[n]) /\ ~deps[n].alias
            THEN pc = "done" =>
                    CallsOf(events, n) \in {PromotionCalls, PromotionCallsRebound}
            ELSE CallsOf(events, n) = <<>>

\* A completed run over a promoted dependency and a stable one of the
\* local user.
C6_Witness ==
    /\ InCopy /\ pc = "done"
    /\ \E n, m \in 1..Len(deps) :
          /\ StableForeign(deps[n]) /\ ~deps[n].alias
          /\ CallsOf(events, n) = PromotionCallsRebound
          /\ deps[m].channel = "stable" /\ deps[m].user = localUser

\* C7: no staging directory outlives the installation it was made for,
\* and once copy_dependencies or package has ended, by its end or by an
\* exception, none of the temporary directories it created exists.
C7_TempDirsRemoved ==
    (task \in {"copy_dependencies", "package"}) =>
        /\ pc # "staged" => tempDirs \subseteq {HomeDir}
        /\ pc \in {"done", "failed"} => tempDirs = {}

\* copy_dependencies failed inside a staging directory inside the
\* temporary home.
C7_Witness ==
    /\ InCopy /\ pc = "failed"
    /\ HomeDir \in created
    /\ \E n \in 1..MaxBuilds : StageDir(n) \in created
    /\ events[Len(events)] = Call("raise", 0, "install")

UploadOps == {"copy", "upload", "remote_update_ref", "remove", "export_alias"}

\* C9 as stated: the redirect remote is re-added only after every
\* dependency upload and alias creation of the run.
C9_AsStated ==
    InCopy =>
        \A i, j \in 1..Len(events) :
            (events[i].op = "remote_add" /\ events[j].op \in {"upload", "export_alias"})
                => j < i

\* C9 amended: the order is: copy of the user home, removal of the remote
\* references, removal of the redirect remote, the installs, re-adding of
\* the redirect remote, and only then the copies, uploads and aliases of
\* the dependencies.
C9_PipelineOrder ==
    InCopy =>
        /\ events # <<>> =>
              events[1].op \in {"copytree", "raise"}
        /\ \A i, j \in 1..Len(events) :
              /\ (events[i].op = "copytree" /\ i # j) => i < j
              /\ (events[i].op = "remove_remote_refs"
                    /\ events[j].op \in {"remote_remove", "install", "remote_add"} \cup UploadOps)
                  => i < j
              /\ (events[i].op = "remote_remove" /\ events[j].op \in {"install", "remote_add"})
                  => i < j
              /\ (events[i].op = "install" /\ events[j].op = "remote_add") => i < j
              /\ (events[i].op \in {"install", "remote_add"} /\ events[j].op \in UploadOps)
                  => i < j
        /\ (\E j \in 1..Len(events) : events[j].op \in UploadOps)
              => \E i \in 1..Len(events) : events[i].op = "remote_add"

\* A completed run that removed the redirect remote, installed, re-added
\* it and promoted a dependency.
C9_Witness ==
    /\ InCopy /\ pc = "done"
    /\ Ops("remote_remove") # {}
    /\ Ops("install") # {}
    /\ Ops("remote_add") # {}
    /\ Ops("export_alias") # {}

\* install_all_configurations is over: it returned, or an install raised.
InstallAllOver ==
    \/ pc \in {"upload_dependencies_internal", "deps", "upload", "update_ref", "remove",
               "export_alias", "upload_alias", "leave_home", "done"}
    \/ pc = "failed" /\ events[Len(events)] = Call("raise", 0, "install")

\* C10: inside conan_redirect_removed the remote list has no conan-redirect,
\* and once install_all_configurations is over, by its end or by the error
\* of an install, conan-redirect is back with its canonical URL at the
\* position it had.
C10_RedirectRestored ==
    InCopy =>
        /\ pc \in {"installing", "staged"} => REDIRECT_REMOTE \notin Names(remoteList)
        /\ InstallAllOver =>
              /\ REDIRECT_REMOTE \in Names(remoteList)
              /\ remoteList[PosOf(remoteList, REDIRECT_REMOTE) + 1].url
                    = CanonicalUrl(REDIRECT_REMOTE)
              /\ PosOf(remoteList, REDIRECT_REMOTE) = savedPos

====
